---- MODULE Spec2Model ----
(***************************************************************************)
(* Group elements of noetherpy: Permutation, ResidueClass,                 *)
(* AdditiveResidueClass, MultiplicativeResidueClass and Matrix             *)
(* (src/src/group_theory/base/group_elements.py).                          *)
(*                                                                         *)
(* The state is one live object `self` of one of the classes, the result   *)
(* of the last operation invoked on it, and the frame of a running         *)
(* Permutation.get_order loop.  Python values are modelled directly:       *)
(* a dict is a function, None is the empty tuple and any other value v is  *)
(* <<v>> where the two have to be told apart (cached properties,           *)
(* is_identity of the base class), an exception is the `exc` field of an   *)
(* outcome.                                                                *)
(***************************************************************************)
EXTENDS Integers, Sequences, FiniteSets, TLC

VARIABLES self, result, pc, product, count, calls

vars == <<self, result, pc, product, count, calls>>

(* ------------------------------ bounds -------------------------------- *)

\* Valid permutations are drawn from the degrees 0..MaxDegree.
MaxDegree == 5
\* Unvalidated dicts have keys in 1..MaxRaw and values in 1..MaxRaw+1.
MaxRaw == 2
\* Exponents of __pow__ are drawn from -MaxPow..MaxPow.
MaxPow == 2
\* get_order's loop is followed while count < MaxCount.
MaxCount == 8
\* A property getter is followed into its computation while it has been
\* called fewer than MaxCalls times on the object.
MaxCalls == 2
\* Moduli are drawn from 1..MaxModulus, residues from -MaxResidue..MaxResidue.
MaxModulus == 7
MaxResidue == 8
\* Matrix entries are drawn from 0..MaxEntry.
MaxEntry == 3

(* --------------------------- Python values ---------------------------- *)

None == <<>>
Some(v) == <<v>>

\* What the last operation invoked on the object gave: its name, its argument,
\* the exception it raised and the value it returned; at first there is none.
NoResult == [op |-> "none", arg |-> None, exc |-> "none", val |-> None]

Ok(v) == [exc |-> "none", val |-> v]
Raise(e) == [exc |-> e, val |-> None]
\* A call that never returns.
Hang == [exc |-> "hang", val |-> None]

Range(f) == {f[x] : x \in DOMAIN f}

Min(S) == CHOOSE x \in S : \A y \in S : x <= y

RECURSIVE SortedSeq(_)
\* The elements of a set of integers in ascending order.
SortedSeq(S) == IF S = {} THEN <<>> ELSE <<Min(S)>> \o SortedSeq(S \ {Min(S)})

(* ------------------------------ Permutation --------------------------- *)

\* {i:i for i in range(1,n+1)}
IdentityDict(n) == [i \in 1..n |-> i]

\* Permutation.__init__: the dict is stored as given; nothing is validated.
Permutation(permutation) ==
  [cls |-> "Permutation",
   permutation |-> permutation,
   num_letters |-> Cardinality(DOMAIN permutation),
   _cycle_decomposition |-> None,
   _order |-> None,
   _sign |-> None]

\* Permutation.validate_permutation (a static method no constructor calls):
\* the sorted keys are 1..len and the set of values is {1..len}.
validate_permutation(permutation) ==
  LET n == Cardinality(DOMAIN permutation)
  IN  IF DOMAIN permutation = 1..n /\ Range(permutation) = 1..n
      THEN Ok(permutation)
      ELSE Raise("AssertionError")

\* Permutation.is_identity on the dict d of an object with num_letters = n.
PermIsIdentity(d, n) == d = IdentityDict(n)

\* Permutation.__eq__
PermEq(d, e) == d = e

\* Permutation.__ne__ and ResidueClass.__ne__: ~self.__eq__(self,other) hands
\* the bound method one argument too many; the call raises TypeError before
\* __eq__ runs or ~ is applied.
Ne(eq) == Raise("TypeError")

\* Permutation.__mul__: {i: self[other[i]] for i in range(1, self.num_letters+1)}
PermMul(d, e) ==
  LET n == Cardinality(DOMAIN d)
  IN  IF \A i \in 1..n : i \in DOMAIN e /\ e[i] \in DOMAIN d
      THEN Ok([i \in 1..n |-> d[e[i]]])
      ELSE Raise("KeyError")

\* __invert__ returning the dict as it is, keys and values not swapped.
PermInversesUnswapped(d) == {d}

\* Permutation.__invert__: {self.permutation[k]:k for k in keys}.  When two keys
\* share a value the later key of the dict's insertion order survives; the
\* insertion order is part of the input, so every choice of one key per value
\* is a possible inverse.
PermInverses(d) ==
  IF \A j, k \in DOMAIN d : d[j] = d[k] => j = k
  THEN {[v \in Range(d) |-> CHOOSE k \in DOMAIN d : d[k] = v]}
  ELSE {f \in [Range(d) -> DOMAIN d] : \A v \in Range(d) : d[f[v]] = v}

RECURSIVE Reduce(_, _, _)
\* reduce(lambda x,y: x*y, [x]*k) continued from the partial product acc with
\* k factors left; an exception of * leaves the reduce.
Reduce(acc, d, k) ==
  IF k = 0 THEN Ok(acc)
  ELSE LET m == PermMul(acc, d)
       IN  IF m.exc # "none" THEN m ELSE Reduce(m.val, d, k - 1)

\* Permutation.__pow__ with ~self already evaluated to inv for N < 0.
PermPow(d, inv, N) ==
  IF N = 0 THEN Ok(IdentityDict(Cardinality(DOMAIN d)))
  ELSE IF N > 0 THEN Reduce(d, d, N - 1)
  ELSE Reduce(inv, inv, (-N) - 1)

RECURSIVE FindCycleWalk(_, _, _, _)
\* The while loop of find_cycle_dict and the assignment after it.  The walk is
\* deterministic: once it returns to a key it has left it repeats forever.
FindCycleWalk(permutation, start, current_key, cycle) ==
  IF current_key \notin DOMAIN permutation THEN Raise("KeyError")
  ELSE IF permutation[current_key] = start
       THEN Ok((current_key :> permutation[current_key]) @@ cycle)
  ELSE IF current_key \in DOMAIN cycle THEN Hang
  ELSE FindCycleWalk(permutation, start, permutation[current_key],
                     (current_key :> permutation[current_key]) @@ cycle)

\* Permutation.find_cycle_dict
find_cycle_dict(permutation, start) ==
  FindCycleWalk(permutation, start, start, <<>>)

\* The cycle made a Permutation without mapping the other keys to themselves.
FillCycleCycleOnly(permutation, cycle) == cycle

\* The body of `if len(cycle)>1` in get_cycle_decomposition: every key outside
\* the cycle is mapped to itself and the dict becomes a Permutation (kept here
\* as its dict; its own caches start empty).
FillCycle(permutation, cycle) ==
  [i \in DOMAIN permutation |-> IF i \in DOMAIN cycle THEN cycle[i] ELSE i]

RECURSIVE ForKeys(_, _, _, _)
\* `for k in key_set` of get_cycle_decomposition over the keys still to visit.
\* CPython iterates a set of small positive ints in ascending order.
ForKeys(permutation, ks, updated_key_set, cycle_list) ==
  IF ks = <<>> THEN Ok([updated_key_set |-> updated_key_set, cycle_list |-> cycle_list])
  ELSE IF Head(ks) \notin updated_key_set
       THEN ForKeys(permutation, Tail(ks), updated_key_set, cycle_list)
  ELSE LET c == find_cycle_dict(permutation, Head(ks))
       IN  IF c.exc # "none" THEN c
           ELSE ForKeys(permutation, Tail(ks),
                        updated_key_set \ DOMAIN c.val,
                        IF Cardinality(DOMAIN c.val) > 1
                        THEN Append(cycle_list, FillCycle(permutation, c.val))
                        ELSE cycle_list)

RECURSIVE WhileKeys(_, _, _)
\* `while len(updated_key_set)>0` of get_cycle_decomposition.
WhileKeys(permutation, updated_key_set, cycle_list) ==
  IF updated_key_set = {} THEN Ok(cycle_list)
  ELSE LET f == ForKeys(permutation, SortedSeq(DOMAIN permutation),
                        updated_key_set, cycle_list)
       IN  IF f.exc # "none" THEN f
           ELSE WhileKeys(permutation, f.val.updated_key_set, f.val.cycle_list)

\* Permutation.get_cycle_decomposition
get_cycle_decomposition(permutation) ==
  WhileKeys(permutation, DOMAIN permutation, <<>>)

\* Matrix.__init__: entries reduced modulo the characteristic.
Matrix(matrix, characteristic) ==
  [cls |-> "Matrix",
   matrix |-> [i \in DOMAIN matrix |-> [j \in DOMAIN matrix[i] |-> matrix[i][j] % characteristic]],
   dimension |-> Len(matrix),
   characteristic |-> characteristic]

\* Permutation.to_matrix: matrix[k-1, permutation[k]-1] = 1 on an n x n array of
\* zeros, then Matrix(matrix, characteristic=2).  Keys and values are positive
\* here, so an index is out of bounds exactly when it exceeds n.
to_matrix(permutation) ==
  LET n == Cardinality(DOMAIN permutation)
  IN  IF \A k \in DOMAIN permutation : k \in 1..n /\ permutation[k] \in 1..n
      THEN Ok(Matrix([i \in 1..n |-> [j \in 1..n |->
                        IF \E k \in DOMAIN permutation : k = i /\ permutation[k] = j
                        THEN 1 ELSE 0]], 2))
      ELSE Raise("IndexError")

\* The number of inversions of a sequence of distinct integers.
Inversions(s) == Cardinality({p \in (DOMAIN s) \X (DOMAIN s) : p[1] < p[2] /\ s[p[1]] > s[p[2]]})

\* numpy.linalg.det of the array to_matrix builds, which holds exactly one 1 in
\* every row: the sign of the arrangement when the 1s lie in distinct columns,
\* 0 when two rows coincide, 1 for the empty array.
Det(m) ==
  LET n == Len(m)
      s == [i \in 1..n |-> CHOOSE j \in 1..n : m[i][j] = 1]
  IN  IF n = 0 THEN 1
      ELSE IF Cardinality(Range(s)) = n
      THEN (IF Inversions(s) % 2 = 0 THEN 1 ELSE -1)
      ELSE 0

(* ---------------------------- residue classes ------------------------- *)

RECURSIVE Gcd(_, _)
\* math.gcd on non-negative integers
Gcd(a, b) == IF b = 0 THEN a ELSE Gcd(b, a % b)

\* sympy.totient
Totient(n) == Cardinality({k \in 1..n : Gcd(k, n) = 1})

RECURSIVE Power(_, _)
\* b**e for e >= 0 (0**0 is 1)
Power(b, e) == IF e = 0 THEN 1 ELSE b * Power(b, e - 1)

\* get_order of the three classes: the base class's body is `pass`, the two
\* subclasses return int(modulus/gcd(residue, modulus)).
ResGetOrder(cls, residue, modulus) ==
  IF cls = "ResidueClass" THEN None
  ELSE Some(modulus \div Gcd(residue, modulus))

\* ResidueClass.__init__, run by the subclasses' __init__ through super().
NewResidueClass(cls, residue, modulus) ==
  [cls |-> cls,
   modulus |-> modulus,
   residue |-> residue % modulus,
   order |-> ResGetOrder(cls, residue % modulus, modulus)]

\* ResidueClass.__eq__
ResEq(a, b) == a.residue = b.residue /\ a.modulus = b.modulus

\* ResidueClass.__add__, inherited unchanged by both subclasses: the sum is a
\* plain ResidueClass whatever the class of the operands.
ResAdd(a, b) ==
  IF a.modulus # b.modulus THEN Raise("ValueError")
  ELSE Ok(NewResidueClass("ResidueClass", (a.residue + b.residue) % a.modulus, a.modulus))

\* ResidueClass.__neg__, inherited unchanged by both subclasses.
ResNeg(a) == Ok(NewResidueClass("ResidueClass", -a.residue, a.modulus))

\* __mul__ of the three classes (the additive class adds).
ResMul(a, b) ==
  IF a.modulus # b.modulus THEN Raise("ValueError")
  ELSE IF a.cls = "AdditiveResidueClass"
       THEN Ok(NewResidueClass(a.cls, (a.residue + b.residue) % a.modulus, a.modulus))
  ELSE Ok(NewResidueClass(a.cls, (a.residue * b.residue) % a.modulus, a.modulus))

\* __invert__ of the three classes: negation for the additive class, Euler's
\* theorem for the other two.
ResInvert(a) ==
  IF a.cls = "AdditiveResidueClass"
  THEN Ok(NewResidueClass(a.cls, -a.residue, a.modulus))
  ELSE IF Gcd(a.residue, a.modulus) # 1 THEN Raise("ValueError")
  ELSE LET exp == Totient(a.modulus) - 1
       IN  Ok(NewResidueClass(a.cls, Power(a.residue, exp), a.modulus))

RECURSIVE ResReduce(_, _, _)
\* reduce(lambda x,y: x*y, [x]*k) on residue classes, continued from acc.
ResReduce(acc, x, k) ==
  IF k = 0 THEN Ok(acc)
  ELSE LET m == ResMul(acc, x)
       IN  IF m.exc # "none" THEN m ELSE ResReduce(m.val, x, k - 1)

\* __pow__ of the three classes.
ResPow(a, N) ==
  IF N = 0
  THEN Ok(NewResidueClass(a.cls, IF a.cls = "AdditiveResidueClass" THEN 0 ELSE 1, a.modulus))
  ELSE IF N > 0 THEN ResReduce(a, a, N - 1)
  ELSE LET inv == ResInvert(a)
       IN  IF inv.exc # "none" THEN inv ELSE ResReduce(inv.val, inv.val, (-N) - 1)

(* -------------------------------- Matrix ------------------------------ *)

\* sympy.eye(n)
Eye(n) == [i \in 1..n |-> [j \in 1..n |-> IF i = j THEN 1 ELSE 0]]

RECURSIVE SumTo(_, _, _, _, _)
\* sum of a[i][k]*b[k][j] for k in 1..n
SumTo(a, b, i, j, n) == IF n = 0 THEN 0 ELSE a[i][n] * b[n][j] + SumTo(a, b, i, j, n - 1)

\* Matrix.__mul__: (self.matrix*other.matrix) % characteristic, through Matrix().
MatMul(a, b) ==
  Ok(Matrix([i \in 1..a.dimension |-> [j \in 1..a.dimension |->
               SumTo(a.matrix, b.matrix, i, j, a.dimension) % a.characteristic]],
            a.characteristic))

RECURSIVE MatReduce(_, _, _)
MatReduce(acc, x, k) ==
  IF k = 0 THEN Ok(acc)
  ELSE LET m == MatMul(acc, x)
       IN  IF m.exc # "none" THEN m ELSE MatReduce(m.val, x, k - 1)

\* Matrix.__pow__ for the exponents N >= 0 (the only ones drawn below):
\* Matrix(sympy.eye(self.dimension)) omits the required characteristic
\* argument, so the N == 0 branch raises TypeError.
MatPow(a, N) ==
  IF N = 0 THEN Raise("TypeError")
  ELSE MatReduce(a, a, N - 1)

(* ----------------------------- is_identity ---------------------------- *)

\* is_identity of every class; the base ResidueClass's body is `pass`.
is_identity(o) ==
  IF o.cls = "Permutation" THEN Some(PermIsIdentity(o.permutation, o.num_letters))
  ELSE IF o.cls = "ResidueClass" THEN None
  ELSE IF o.cls = "AdditiveResidueClass" THEN Some(o.residue = 0)
  ELSE IF o.cls = "MultiplicativeResidueClass" THEN Some(o.residue = 1)
  ELSE Some(o.matrix = Eye(o.dimension))

(* ------------------------- property getters --------------------------- *)

\* Permutation.cycle_decomposition: `== None` is false of every list, the
\* empty one included.  `called` tells whether get_cycle_decomposition ran.
cycle_decomposition(o) ==
  IF o._cycle_decomposition = None
  THEN LET out == get_cycle_decomposition(o.permutation)
       IN  [called |-> TRUE, out |-> out,
            self |-> IF out.exc = "none"
                     THEN [o EXCEPT !._cycle_decomposition = Some(out.val)] ELSE o]
  ELSE [called |-> FALSE, out |-> Ok(o._cycle_decomposition[1]), self |-> o]

\* Permutation.sign: `called` tells whether numpy.linalg.det ran (to_matrix
\* raises before it does when an index is out of bounds).
sign(o) ==
  IF o._sign = None
  THEN LET m == to_matrix(o.permutation)
       IN  IF m.exc # "none" THEN [called |-> FALSE, out |-> m, self |-> o]
           ELSE [called |-> TRUE, out |-> Ok(Det(m.val.matrix)),
                 self |-> [o EXCEPT !._sign = Some(Det(m.val.matrix))]]
  ELSE [called |-> FALSE, out |-> Ok(o._sign[1]), self |-> o]

\* get_order multiplying the running product by itself instead of by self.
get_order_step_squaring(d, prod, cnt) ==
  IF PermIsIdentity(prod, Cardinality(DOMAIN prod))
  THEN [returns |-> TRUE, out |-> Ok(cnt), product |-> prod, count |-> cnt]
  ELSE LET m == PermMul(prod, prod)
       IN  IF m.exc # "none"
           THEN [returns |-> TRUE, out |-> m, product |-> prod, count |-> cnt]
           ELSE [returns |-> FALSE, out |-> Ok(None), product |-> m.val, count |-> cnt + 1]

\* One test of get_order's loop condition and, when it holds, one run of the
\* loop body; otherwise the return of count.
get_order_step(d, prod, cnt) ==
  IF PermIsIdentity(prod, Cardinality(DOMAIN prod))
  THEN [returns |-> TRUE, out |-> Ok(cnt), product |-> prod, count |-> cnt]
  ELSE LET m == PermMul(prod, d)
       IN  IF m.exc # "none"
           THEN [returns |-> TRUE, out |-> m, product |-> prod, count |-> cnt]
           ELSE [returns |-> FALSE, out |-> Ok(None), product |-> m.val, count |-> cnt + 1]

(* ------------------------------- inputs ------------------------------- *)

\* The bijections of 1..n, n <= MaxDegree.
ValidDicts == UNION {{f \in [1..n -> 1..n] : Range(f) = 1..n} : n \in 0..MaxDegree}

\* Every dict with keys among 1..MaxRaw and values among 1..MaxRaw+1.
RawDicts == UNION {[K -> 1..(MaxRaw + 1)] : K \in SUBSET (1..MaxRaw)}

\* Second operands of ==, != and *: the object's own dict, the identity of its
\* size and its inverses.
OperandDicts(d) == {d, IdentityDict(Cardinality(DOMAIN d))} \cup PermInverses(d)

ResidueClasses == {"ResidueClass", "AdditiveResidueClass", "MultiplicativeResidueClass"}

\* Second operands of ==, != on residue classes: same class, residue r or 0 or
\* 1, same modulus or the next one.
ResOperands(a) ==
  {NewResidueClass(a.cls, r, m) : r \in {a.residue, 0, 1}, m \in {a.modulus, a.modulus + 1}}

MatrixDims == {1, 2}
Characteristics == {2, 3}

(* ------------------------------- state -------------------------------- *)

NoObject == [cls |-> "none"]
NoCalls == [cycle_decomposition |-> 0, order |-> 0, sign |-> 0]

Init ==
  /\ self = NoObject
  /\ result = NoResult
  /\ pc = "new"
  /\ product = <<>>
  /\ count = 0
  /\ calls = NoCalls

\* The operation op(arg) ended with outcome out; a call that hangs never
\* gives control back.
Return(op, arg, out) ==
  /\ result' = [op |-> op, arg |-> arg, exc |-> out.exc, val |-> out.val]
  /\ pc' = IF out.exc = "hang" THEN "hung" ELSE "idle"

IsPerm == pc = "idle" /\ self.cls = "Permutation"
IsRes == pc = "idle" /\ self.cls \in ResidueClasses
IsMat == pc = "idle" /\ self.cls = "Matrix"

(* ------------------------ Permutation operations ---------------------- *)

NewPermutation ==
  /\ pc = "new"
  /\ \E d \in ValidDicts \cup RawDicts : self' = Permutation(d)
  /\ pc' = "idle"
  /\ UNCHANGED <<result, product, count, calls>>

CallValidatePermutation ==
  /\ IsPerm
  /\ Return("validate_permutation", None, validate_permutation(self.permutation))
  /\ UNCHANGED <<self, product, count, calls>>

PermCallIsIdentity ==
  /\ IsPerm
  /\ Return("is_identity", None, Ok(is_identity(self)))
  /\ UNCHANGED <<self, product, count, calls>>

PermCallEq ==
  /\ IsPerm
  /\ \E e \in OperandDicts(self.permutation) :
       Return("eq", e, Ok(PermEq(self.permutation, e)))
  /\ UNCHANGED <<self, product, count, calls>>

PermCallNe ==
  /\ IsPerm
  /\ \E e \in OperandDicts(self.permutation) :
       Return("ne", e, Ne(PermEq(self.permutation, e)))
  /\ UNCHANGED <<self, product, count, calls>>

PermCallMul ==
  /\ IsPerm
  /\ \E e \in OperandDicts(self.permutation) :
       Return("mul", e, PermMul(self.permutation, e))
  /\ UNCHANGED <<self, product, count, calls>>

PermCallInvert ==
  /\ IsPerm
  /\ \E inv \in PermInverses(self.permutation) :
       Return("invert", None, Ok(inv))
  /\ UNCHANGED <<self, product, count, calls>>

\* self * ~self
PermMulInverse ==
  /\ IsPerm
  /\ \E inv \in PermInverses(self.permutation) :
       Return("mul_inverse", None, PermMul(self.permutation, inv))
  /\ UNCHANGED <<self, product, count, calls>>

PermCallPow ==
  /\ IsPerm
  /\ \E inv \in PermInverses(self.permutation), N \in (-MaxPow)..MaxPow :
       Return("pow", N, PermPow(self.permutation, inv, N))
  /\ UNCHANGED <<self, product, count, calls>>

ReadCycleDecomposition ==
  /\ IsPerm
  /\ LET r == cycle_decomposition(self)
     IN  /\ r.called => calls.cycle_decomposition < MaxCalls
         /\ self' = r.self
         /\ calls' = IF r.called
                     THEN [calls EXCEPT !.cycle_decomposition = @ + 1] ELSE calls
         /\ Return("cycle_decomposition", None, r.out)
  /\ UNCHANGED <<product, count>>

ReadSign ==
  /\ IsPerm
  /\ LET r == sign(self)
     IN  /\ r.called => calls.sign < MaxCalls
         /\ self' = r.self
         /\ calls' = IF r.called THEN [calls EXCEPT !.sign = @ + 1] ELSE calls
         /\ Return("sign", None, r.out)
  /\ UNCHANGED <<product, count>>

\* Permutation.order: a stored value is returned, otherwise get_order is entered
\* (count = 1, product = self) and there is no result until it returns.
ReadOrder ==
  /\ IsPerm
  /\ IF self._order = None
     THEN /\ calls.order < MaxCalls
          /\ calls' = [calls EXCEPT !.order = @ + 1]
          /\ pc' = "get_order"
          /\ product' = self.permutation
          /\ count' = 1
          /\ result' = NoResult
          /\ UNCHANGED self
     ELSE /\ Return("order", None, Ok(self._order[1]))
          /\ UNCHANGED <<self, product, count, calls>>

\* One turn of get_order's loop; on return the property stores the count.
GetOrderStep ==
  /\ pc = "get_order"
  /\ LET s == get_order_step(self.permutation, product, count)
     IN  IF s.returns
         THEN /\ Return("order", None, s.out)
              /\ self' = IF s.out.exc = "none"
                         THEN [self EXCEPT !._order = Some(s.out.val)] ELSE self
              /\ product' = <<>>
              /\ count' = 0
         ELSE /\ count < MaxCount
              /\ product' = s.product
              /\ count' = s.count
              /\ UNCHANGED <<self, result, pc>>
  /\ UNCHANGED calls

(* ---------------------- residue class operations ---------------------- *)

NewResidue ==
  /\ pc = "new"
  /\ \E cls \in ResidueClasses, residue \in (-MaxResidue)..MaxResidue, modulus \in 1..MaxModulus :
       self' = NewResidueClass(cls, residue, modulus)
  /\ pc' = "idle"
  /\ UNCHANGED <<result, product, count, calls>>

ResCallIsIdentity ==
  /\ IsRes
  /\ Return("is_identity", None, Ok(is_identity(self)))
  /\ UNCHANGED <<self, product, count, calls>>

ResCallEq ==
  /\ IsRes
  /\ \E b \in ResOperands(self) :
       Return("eq", b, Ok(ResEq(self, b)))
  /\ UNCHANGED <<self, product, count, calls>>

ResCallNe ==
  /\ IsRes
  /\ \E b \in ResOperands(self) :
       Return("ne", b, Ne(ResEq(self, b)))
  /\ UNCHANGED <<self, product, count, calls>>

ResCallAdd ==
  /\ IsRes
  /\ \E b \in ResOperands(self) :
       Return("add", b, ResAdd(self, b))
  /\ UNCHANGED <<self, product, count, calls>>

ResCallMul ==
  /\ IsRes
  /\ \E b \in ResOperands(self) :
       Return("mul", b, ResMul(self, b))
  /\ UNCHANGED <<self, product, count, calls>>

ResCallNeg ==
  /\ IsRes
  /\ Return("neg", None, ResNeg(self))
  /\ UNCHANGED <<self, product, count, calls>>

ResCallInvert ==
  /\ IsRes
  /\ Return("invert", None, ResInvert(self))
  /\ UNCHANGED <<self, product, count, calls>>

ResCallPow ==
  /\ IsRes
  /\ \E N \in (-MaxPow)..MaxPow : Return("pow", N, ResPow(self, N))
  /\ UNCHANGED <<self, product, count, calls>>

\* self + (-self)
ResAddNeg ==
  /\ IsRes
  /\ Return("add_neg", None, ResAdd(self, ResNeg(self).val))
  /\ UNCHANGED <<self, product, count, calls>>

\* self * ~self
ResMulInverse ==
  /\ IsRes
  /\ LET inv == ResInvert(self)
     IN  Return("mul_inverse", None,
                IF inv.exc # "none" THEN inv ELSE ResMul(self, inv.val))
  /\ UNCHANGED <<self, product, count, calls>>

(* --------------------------- Matrix operations ------------------------ *)

NewMatrix ==
  /\ pc = "new"
  /\ \E n \in MatrixDims, characteristic \in Characteristics :
       \E matrix \in [1..n -> [1..n -> 0..MaxEntry]] : self' = Matrix(matrix, characteristic)
  /\ pc' = "idle"
  /\ UNCHANGED <<result, product, count, calls>>

MatCallIsIdentity ==
  /\ IsMat
  /\ Return("is_identity", None, Ok(is_identity(self)))
  /\ UNCHANGED <<self, product, count, calls>>

MatCallMul ==
  /\ IsMat
  /\ Return("mul", None, MatMul(self, self))
  /\ UNCHANGED <<self, product, count, calls>>

MatCallPow ==
  /\ IsMat
  /\ \E N \in 0..MaxPow : Return("pow", N, MatPow(self, N))
  /\ UNCHANGED <<self, product, count, calls>>

(* ------------------------------ the system ---------------------------- *)

Next ==
  \/ NewPermutation
  \/ CallValidatePermutation
  \/ PermCallIsIdentity
  \/ PermCallEq
  \/ PermCallNe
  \/ PermCallMul
  \/ PermCallInvert
  \/ PermMulInverse
  \/ PermCallPow
  \/ ReadCycleDecomposition
  \/ ReadSign
  \/ ReadOrder
  \/ GetOrderStep
  \/ NewResidue
  \/ ResCallIsIdentity
  \/ ResCallEq
  \/ ResCallNe
  \/ ResCallAdd
  \/ ResCallMul
  \/ ResCallNeg
  \/ ResCallInvert
  \/ ResCallPow
  \/ ResAddNeg
  \/ ResMulInverse
  \/ NewMatrix
  \/ MatCallIsIdentity
  \/ MatCallMul
  \/ MatCallPow

Spec == Init /\ [][Next]_vars

(* ------------------------------ properties ---------------------------- *)

\* d is a bijection of 1..n onto itself, n the number of its entries.
Bijective(d) ==
  LET n == Cardinality(DOMAIN d)
  IN  /\ DOMAIN d = 1..n
      /\ \A i \in 1..n : d[i] \in 1..n
      /\ \A i, j \in 1..n : d[i] = d[j] => i = j

ValidPermutation == self.cls = "Permutation" /\ Bijective(self.permutation)

RECURSIVE IterAt(_, _, _)
\* The image of a under k applications of d.
IterAt(d, a, k) == IF k = 0 THEN a ELSE d[IterAt(d, a, k - 1)]

\* The k-th power of the bijection d, point by point.
PowerOf(d, k) == [i \in DOMAIN d |-> IterAt(d, i, k)]

Orbit(d, a) == {IterAt(d, a, k) : k \in 0..Cardinality(DOMAIN d)}

Moved(d) == {i \in DOMAIN d : d[i] # i}

RECURSIVE LcmSet(_)
\* The least common multiple of a set of positive integers.
LcmSet(S) ==
  IF S = {} THEN 1
  ELSE LET x == CHOOSE y \in S : TRUE
           r == LcmSet(S \ {x})
       IN  CHOOSE m \in 1..(x * r) :
             /\ m % x = 0 /\ m % r = 0
             /\ \A l \in 1..(m - 1) : ~(l % x = 0 /\ l % r = 0)

LcmCycleLengths(d) == LcmSet({Cardinality(Orbit(d, a)) : a \in DOMAIN d})

RECURSIVE ComposeAll(_, _)
\* acc * L[1] * ... * L[Len(L)], with the code's own composition.
ComposeAll(acc, L) ==
  IF L = <<>> THEN Ok(acc)
  ELSE LET m == PermMul(acc, Head(L))
       IN  IF m.exc # "none" THEN m ELSE ComposeAll(m.val, Tail(L))

\* C1: a Permutation never holds a dict that is not a bijection of 1..n:
\* constructing one from such a dict fails.
ConstructionRejectsNonBijections ==
  self.cls = "Permutation" => Bijective(self.permutation)

\* C2: in the Permutation, additive and multiplicative representations,
\* is_identity() holds exactly of the identity value (identity mapping,
\* residue 0, residue 1), and an element on which it holds has order 1.
IdentityHasOrderOne ==
  /\ self.cls = "Permutation" =>
       /\ (is_identity(self) = Some(TRUE))
            <=> (self.permutation = [i \in 1..self.num_letters |-> i])
       /\ (is_identity(self) = Some(TRUE) /\ result.op = "order") => result.val = 1
  /\ self.cls = "AdditiveResidueClass" =>
       /\ (is_identity(self) = Some(TRUE)) <=> (self.residue = 0)
       /\ is_identity(self) = Some(TRUE) => self.order = Some(1)
  /\ self.cls = "MultiplicativeResidueClass" =>
       /\ (is_identity(self) = Some(TRUE)) <=> (self.residue = 1)
       /\ is_identity(self) = Some(TRUE) => self.order = Some(1)

\* C3: for a multiplicative residue class a with gcd(residue, modulus) = 1,
\* a * ~a is computed without error, has residue 1 and is_identity() holds on it.
MulInverseIsMultiplicativeIdentity ==
  (/\ self.cls = "MultiplicativeResidueClass"
   /\ result.op = "mul_inverse"
   /\ Gcd(self.residue, self.modulus) = 1) =>
     /\ result.exc = "none"
     /\ result.val.residue = 1
     /\ is_identity(result.val) = Some(TRUE)

\* C4: for an additive residue class a of modulus n, a + (-a) has residue 0 and
\* modulus n, and is_identity() holds on it.
AddNegIsAdditiveIdentity ==
  (self.cls = "AdditiveResidueClass" /\ result.op = "add_neg") =>
     /\ result.exc = "none"
     /\ result.val.residue = 0
     /\ result.val.modulus = self.modulus
     /\ is_identity(result.val) = Some(TRUE)

\* C5: the cycle decomposition of a valid permutation p of degree n is a list of
\* bijections of 1..n, each moving the points of a single orbit of at least two
\* points and fixing the rest, no two moving a common point, whose product
\* (the identity when the list is empty) is p.
CycleDecompositionReconstructs ==
  (result.op = "cycle_decomposition" /\ ValidPermutation) =>
     /\ result.exc = "none"
     /\ LET L == result.val
            n == self.num_letters
        IN  /\ \A k \in DOMAIN L :
                 /\ DOMAIN L[k] = 1..n
                 /\ Bijective(L[k])
                 /\ Cardinality(Moved(L[k])) >= 2
                 /\ \A a \in Moved(L[k]) : Orbit(L[k], a) = Moved(L[k])
            /\ \A j, k \in DOMAIN L : j # k => Moved(L[j]) \cap Moved(L[k]) = {}
            /\ ComposeAll(IdentityDict(n), L) = Ok(self.permutation)

\* A decomposition into at least two cycles, one of them of length >= 3.
CycleDecompositionWitness ==
  /\ result.op = "cycle_decomposition"
  /\ ValidPermutation
  /\ result.exc = "none"
  /\ Len(result.val) >= 2
  /\ \E k \in DOMAIN result.val : Cardinality(Moved(result.val[k])) >= 3

\* C6: on a valid permutation p of degree n >= 1 get_order terminates (its loop
\* can always take its next turn and count never exceeds the least common
\* multiple of the cycle lengths) and returns the least k >= 1 with p^k the
\* identity, which is that least common multiple.
GetOrderIsLeastPower ==
  ((pc = "get_order" \/ result.op = "order") /\ ValidPermutation /\ self.num_letters >= 1) =>
     LET p == self.permutation
         l == LcmCycleLengths(p)
     IN  /\ pc = "get_order" =>
              /\ ENABLED GetOrderStep
              /\ count <= l
              /\ product = PowerOf(p, count)
         /\ result.op = "order" =>
              /\ result.exc = "none"
              /\ result.val >= 1
              /\ PowerOf(p, result.val) = IdentityDict(self.num_letters)
              /\ \A k \in 1..(result.val - 1) : PowerOf(p, k) # IdentityDict(self.num_letters)
              /\ result.val = l

\* get_order has returned an order that exceeds every cycle length.
GetOrderWitness ==
  /\ result.op = "order"
  /\ ValidPermutation
  /\ self.num_letters >= 1
  /\ result.exc = "none"
  /\ \A a \in DOMAIN self.permutation : result.val > Cardinality(Orbit(self.permutation, a))

\* C7: for a valid permutation p of degree n, p * ~p and p ** 0 are the identity
\* permutation of degree n.
MulInverseAndPowZeroAreIdentity ==
  (result.op \in {"mul_inverse", "pow"} /\ ValidPermutation) =>
     /\ result.op = "mul_inverse" =>
          result.exc = "none" /\ result.val = IdentityDict(self.num_letters)
     /\ (result.op = "pow" /\ result.arg = 0) =>
          result.exc = "none" /\ result.val = IdentityDict(self.num_letters)

\* p * ~p has been computed for a p of degree >= 3 that is not its own inverse.
MulInverseWitness ==
  /\ result.op = "mul_inverse"
  /\ ValidPermutation
  /\ self.num_letters >= 3
  /\ PowerOf(self.permutation, 2) # IdentityDict(self.num_letters)

\* C8: M ** 0 of a Matrix M of dimension d and characteristic p is computed
\* without error and is the identity Matrix of dimension d and characteristic p.
MatPowZeroIsIdentity ==
  (self.cls = "Matrix" /\ result.op = "pow" /\ result.arg = 0) =>
     /\ result.exc = "none"
     /\ result.val.dimension = self.dimension
     /\ result.val.characteristic = self.characteristic
     /\ is_identity(result.val) = Some(TRUE)

\* C9: on every Permutation instance get_cycle_decomposition, get_order and
\* the determinant are each called at most once, whatever is read and how often.
DerivedValuesComputedOnce ==
  self.cls = "Permutation" =>
     /\ calls.cycle_decomposition <= 1
     /\ calls.order <= 1
     /\ calls.sign <= 1

\* C10: p != q on permutations and on residue classes ends without error and
\* gives the negation of p == q.
NeNegatesEq ==
  result.op = "ne" =>
     /\ result.exc = "none"
     /\ result.val = IF self.cls = "Permutation"
                     THEN ~PermEq(self.permutation, result.arg)
                     ELSE ~ResEq(self, result.arg)

====
